---- MODULE Spec2Model ----
(***************************************************************************)
(* Model of bond_calc.py: Bond.calculate (coupon schedule, accrued         *)
(* interest, discounting), Bond._calculate_year_fraction and               *)
(* bootstrap_spot_curve.                                                   *)
(*                                                                         *)
(* Numbers.  Dates are records [year, month, day] with the proleptic       *)
(* Gregorian ordinal of datetime.date.  Rates are integer percentages.     *)
(* Real quantities are exact rationals <<num, den>>; floating-point        *)
(* rounding is not modelled.  Amounts of cash flows are kept multiplied by *)
(* 100 * freq, so that coupon_val = face * coupon_rate is an integer.      *)
(***************************************************************************)
EXTENDS Integers, Sequences, FiniteSets, TLC

VARIABLES
    bond,               \* the Bond dataclass instance (None outside calculate)
    pc,                 \* position inside Bond.calculate
    current_candidate,  \* get_last_coupon_date: the backward walk's candidate
    last_coupon,        \* calculate: last_coupon
    days_accrued,       \* calculate: days_accrued
    accrued_interest,   \* calculate: accrued_interest, a rational
    current_cf_date,    \* calculate: current_cf_date of the forward loop
    cash_flows,         \* calculate: cash_flows, a sequence of [date, amount]
    dirty_price,        \* calculate: dirty_price after the loop: "zero"/"nonzero"
    result,             \* what calculate returned or raised
    yf,                 \* one call of _calculate_year_fraction
    bs                  \* one call of bootstrap_spot_curve

vars == <<bond, pc, current_candidate, last_coupon, days_accrued,
          accrued_interest, current_cf_date, cash_flows, dirty_price,
          result, yf, bs>>

calcVars == <<bond, pc, current_candidate, last_coupon, days_accrued,
              accrued_interest, current_cf_date, cash_flows, dirty_price,
              result>>

None == "None"

-----------------------------------------------------------------------------
(* Bounds of the explored inputs *)

\* number of calendar years the input dates are drawn from (2027, 2028, ...)
MaxYears == 2

Years == 2027 .. (2026 + MaxYears)

Months == {2, 5, 8, 11}

Days == {15, 28, 29, 30, 31}

Conventions == {"30/360", "Actual/360", "Actual/365", "Actual/Actual"}

\* a convention token outside the Literal type
OtherConvention == "Actual/364"

Frequencies == {"annually", "semi-annually", "quarterly", "monthly"}

\* <<face_value, coupon_rate, yield_rate>>
Numerics ==
    { <<100, 5, 6>>, <<100, 0, 6>>, <<0, 5, 6>>,
      <<100, 5, -100>>, <<100, 5, -200>>, <<0, 0, -200>> }

-----------------------------------------------------------------------------
(* datetime.date *)

IsLeap(y) == (y % 4 = 0) /\ ((y % 100 # 0) \/ (y % 400 = 0))

DaysInMonth(y, m) ==
    IF m = 2 THEN (IF IsLeap(y) THEN 29 ELSE 28)
    ELSE IF m \in {4, 6, 9, 11} THEN 30 ELSE 31

\* datetime.date(y, m, d) raises ValueError exactly when this is false
ValidDate(y, m, d) ==
    /\ y >= 1 /\ m \in 1..12
    /\ d >= 1 /\ d <= DaysInMonth(y, m)

MkDate(y, m, d) == [year |-> y, month |-> m, day |-> d]

DaysBeforeYear(y) ==
    365 * (y - 1) + ((y - 1) \div 4) - ((y - 1) \div 100) + ((y - 1) \div 400)

RECURSIVE DaysBeforeMonth(_, _)
DaysBeforeMonth(y, m) ==
    IF m = 1 THEN 0 ELSE DaysBeforeMonth(y, m - 1) + DaysInMonth(y, m - 1)

\* date.toordinal()
Ordinal(d) == DaysBeforeYear(d.year) + DaysBeforeMonth(d.year, d.month) + d.day

\* (d2 - d1).days
DaysBetween(d1, d2) == Ordinal(d2) - Ordinal(d1)

DateGT(a, b) == Ordinal(a) > Ordinal(b)

DateLE(a, b) == Ordinal(a) <= Ordinal(b)

Dates ==
    { MkDate(y, m, d) : <<y, m, d>> \in
          { t \in Years \X Months \X Days : ValidDate(t[1], t[2], t[3]) } }

-----------------------------------------------------------------------------
(* Bond helpers *)

GetFrequencyInt(b) ==
    IF b.frequency = "annually" THEN 1
    ELSE IF b.frequency = "semi-annually" THEN 2
    ELSE IF b.frequency = "quarterly" THEN 4
    ELSE IF b.frequency = "monthly" THEN 12
    ELSE 1

MonthsStep(b) == 12 \div GetFrequencyInt(b)

\* the second cap tests the uncapped day of d1
CalculateDays30360Uncapped(d1, d2) ==
    LET d1_day == IF d1.day = 31 THEN 30 ELSE d1.day
        d2_day == IF d2.day = 31 /\ d1.day = 30 THEN 30 ELSE d2.day
    IN  360 * (d2.year - d1.year) + 30 * (d2.month - d1.month)
          + (d2_day - d1_day)

CalculateDays30360(d1, d2) ==
    LET d1_day == IF d1.day = 31 THEN 30 ELSE d1.day
        d2_day == IF d2.day = 31 /\ d1_day = 30 THEN 30 ELSE d2.day
    IN  360 * (d2.year - d1.year) + 30 * (d2.month - d1.month)
          + (d2_day - d1_day)

\* The value returned by _calculate_year_fraction, a rational <<num, den>>;
\* days / 365.25 is (4 * days) / 1461.
CalculateYearFraction(convention, d1, d2) ==
    IF convention = "30/360" THEN
        [kind |-> "value", val |-> <<CalculateDays30360(d1, d2), 360>>]
    ELSE IF convention = "Actual/360" THEN
        [kind |-> "value", val |-> <<DaysBetween(d1, d2), 360>>]
    ELSE IF convention = "Actual/365" THEN
        [kind |-> "value", val |-> <<DaysBetween(d1, d2), 365>>]
    ELSE IF convention = "Actual/Actual" THEN
        IF d1.year = d2.year
        THEN [kind |-> "value",
              val |-> <<DaysBetween(d1, d2),
                        IF IsLeap(d1.year) THEN 366 ELSE 365>>]
        ELSE [kind |-> "value", val |-> <<4 * DaysBetween(d1, d2), 1461>>]
    ELSE [kind |-> "value", val |-> <<0, 1>>]

\* while month <= 0: month += 12; year -= 1
RECURSIVE WrapBack(_, _)
WrapBack(y, m) == IF m <= 0 THEN WrapBack(y - 1, m + 12) ELSE <<y, m>>

\* the wrap forgets y += 1
RECURSIVE WrapForwardSameYear(_, _)
WrapForwardSameYear(y, m) ==
    IF m > 12 THEN WrapForwardSameYear(y, m - 12) ELSE <<y, m>>

\* while m > 12: m -= 12; y += 1
RECURSIVE WrapForward(_, _)
WrapForward(y, m) == IF m > 12 THEN WrapForward(y + 1, m - 12) ELSE <<y, m>>

\* the fallback takes the last day of the target month instead of day 28
MoveBackOnePeriodMonthEnd(cur, months_step) ==
    LET ym == WrapBack(cur.year, cur.month - months_step)
    IN  IF ValidDate(ym[1], ym[2], cur.day) THEN MkDate(ym[1], ym[2], cur.day)
        ELSE IF cur.day >= 29
             THEN MkDate(ym[1], ym[2], DaysInMonth(ym[1], ym[2]))
        ELSE cur

\* One iteration of the backward loop of get_last_coupon_date
MoveBackOnePeriod(cur, months_step) ==
    LET ym == WrapBack(cur.year, cur.month - months_step)
    IN  IF ValidDate(ym[1], ym[2], cur.day) THEN MkDate(ym[1], ym[2], cur.day)
        ELSE IF cur.day >= 29 THEN MkDate(ym[1], ym[2], 28)
        ELSE cur

\* try: date(y, m, day) except: date(y, m, 28), after the month wrap
MoveForwardOnePeriod(cur, months_step) ==
    LET ym == WrapForward(cur.year, cur.month + months_step)
    IN  IF ValidDate(ym[1], ym[2], cur.day) THEN MkDate(ym[1], ym[2], cur.day)
        ELSE MkDate(ym[1], ym[2], 28)

\* coupon_val computed from the yield instead of the coupon rate
CouponValFromYield(b) == b.face_value * b.yield_rate

\* coupon_val, multiplied by 100 * freq
CouponVal(b) == b.face_value * b.coupon_rate

\* face_value, multiplied by 100 * freq
FaceVal(b) == b.face_value * 100 * GetFrequencyInt(b)

\* The sign of 1 + yield_dec / freq, whose value is
\* (100 * freq + yield_rate) / (100 * freq)
DiscountBase(b) == 100 * GetFrequencyInt(b) + b.yield_rate

-----------------------------------------------------------------------------
(* Bond.calculate *)

Bonds ==
    { [face_value |-> nm[1], coupon_rate |-> nm[2], yield_rate |-> nm[3],
       frequency |-> f, maturity_date |-> m, settlement_date |-> s,
       convention |-> c] :
        <<nm, f, m, s, c>> \in
            Numerics \X Frequencies \X Dates \X Dates
                     \X (Conventions \cup {OtherConvention}) }

Raised(k) == [kind |-> k]

NoResult == [kind |-> "none"]

\* a rational not yet computed
Unset == <<0, 0>>

\* a date variable not yet assigned (shown as date.min); days_accrued not
\* yet assigned is shown as 0.  No step reads either before assigning it.
NoDate == MkDate(1, 1, 1)

CalcInit ==
    /\ bond \in Bonds
    /\ pc = "new"
    /\ current_candidate = NoDate
    /\ last_coupon = NoDate
    /\ days_accrued = 0
    /\ accrued_interest = Unset
    /\ current_cf_date = NoDate
    /\ cash_flows = << >>
    /\ dirty_price = None
    /\ result = NoResult

\* calculate() is entered and calls get_last_coupon_date, which starts the
\* walk at maturity_date
EnterCalculate ==
    /\ pc = "new"
    /\ current_candidate' = bond.maturity_date
    /\ pc' = "walk"
    /\ UNCHANGED <<bond, last_coupon, days_accrued, accrued_interest,
                   current_cf_date, cash_flows, dirty_price, result, yf, bs>>

\* while current_candidate > settlement_date: move back one period
GetLastCouponDateStep ==
    /\ pc = "walk"
    /\ DateGT(current_candidate, bond.settlement_date)
    /\ current_candidate' = MoveBackOnePeriod(current_candidate, MonthsStep(bond))
    /\ UNCHANGED <<bond, pc, last_coupon, days_accrued, accrued_interest,
                   current_cf_date, cash_flows, dirty_price, result, yf, bs>>

\* the loop condition is false: return current_candidate
GetLastCouponDateReturn ==
    /\ pc = "walk"
    /\ ~ DateGT(current_candidate, bond.settlement_date)
    /\ last_coupon' = current_candidate
    /\ pc' = "accrue"
    /\ UNCHANGED <<bond, current_candidate, days_accrued, accrued_interest,
                   current_cf_date, cash_flows, dirty_price, result, yf, bs>>

\* the two dates are passed in the wrong order
DaysAccruedReversed(b, lc) ==
    IF b.convention = "30/360"
    THEN CalculateDays30360(b.settlement_date, lc)
    ELSE DaysBetween(b.settlement_date, lc)

\* days_accrued of the convention's branch
DaysAccrued(b, lc) ==
    IF b.convention = "30/360"
    THEN CalculateDays30360(lc, b.settlement_date)
    ELSE DaysBetween(lc, b.settlement_date)

\* next_coupon of the Actual/Actual branch: a single "if m_next > 12"
NextCouponActual(b, lc) ==
    LET m0 == lc.month + MonthsStep(b)
        m_next == IF m0 > 12 THEN m0 - 12 ELSE m0
        y_next == IF m0 > 12 THEN lc.year + 1 ELSE lc.year
    IN  IF ValidDate(y_next, m_next, lc.day) THEN MkDate(y_next, m_next, lc.day)
        ELSE MkDate(y_next, m_next, 28)

\* The divisor of days_accrued, a rational: 360 / freq, 365 / freq or
\* days_in_period
PeriodLength(b, lc) ==
    IF b.convention \in {"30/360", "Actual/360"} THEN <<360, GetFrequencyInt(b)>>
    ELSE IF b.convention = "Actual/365" THEN <<365, GetFrequencyInt(b)>>
    ELSE <<DaysBetween(lc, NextCouponActual(b, lc)), 1>>

\* coupon_val * (days_accrued / period), a rational
AccruedInterestOf(b, lc) ==
    LET period == PeriodLength(b, lc)
    IN  <<CouponVal(b) * DaysAccrued(b, lc) * period[2],
          100 * GetFrequencyInt(b) * period[1]>>

\* 1. Calculate Accrued Interest
AccruedInterest ==
    /\ pc = "accrue"
    /\ days_accrued' = DaysAccrued(bond, last_coupon)
    /\ IF PeriodLength(bond, last_coupon)[1] = 0
       THEN /\ result' = Raised("ZeroDivisionError")
            /\ pc' = "done"
            /\ UNCHANGED accrued_interest
       ELSE /\ accrued_interest' = AccruedInterestOf(bond, last_coupon)
            /\ pc' = "first"
            /\ UNCHANGED result
    /\ UNCHANGED <<bond, current_candidate, last_coupon, current_cf_date,
                   cash_flows, dirty_price, yf, bs>>

\* Advance to first coupon date after last_coupon
FirstCoupon ==
    /\ pc = "first"
    /\ cash_flows' = << >>
    /\ current_cf_date' = MoveForwardOnePeriod(last_coupon, MonthsStep(bond))
    /\ pc' = "gen"
    /\ UNCHANGED <<bond, current_candidate, last_coupon, days_accrued,
                   accrued_interest, dirty_price, result, yf, bs>>

\* amount of the cash flow dated d
Amount(b, d) ==
    IF d = b.maturity_date THEN CouponVal(b) + FaceVal(b) ELSE CouponVal(b)

\* while current_cf_date <= maturity_date: append and step forward
GenerateStep ==
    /\ pc = "gen"
    /\ DateLE(current_cf_date, bond.maturity_date)
    /\ cash_flows' = Append(cash_flows,
                            [date |-> current_cf_date,
                             amount |-> Amount(bond, current_cf_date)])
    /\ current_cf_date' = MoveForwardOnePeriod(current_cf_date, MonthsStep(bond))
    /\ UNCHANGED <<bond, pc, current_candidate, last_coupon, days_accrued,
                   accrued_interest, dirty_price, result, yf, bs>>

GenerateExit ==
    /\ pc = "gen"
    /\ ~ DateLE(current_cf_date, bond.maturity_date)
    /\ pc' = "discount"
    /\ UNCHANGED <<bond, current_candidate, last_coupon, days_accrued,
                   accrued_interest, current_cf_date, cash_flows, dirty_price,
                   result, yf, bs>>

\* Does the loop body raise for one cash flow?  t is the year fraction
\* <<num, den>> with den > 0, n = freq * t has the sign of num.
\*   base > 0: no power or division fails
\*   base = 0, n > 0: pow is 0.0 and 1 / 0.0 raises
\*   base = 0, n = 0: pow(0.0, n + 2) is 0.0 and the convexity term divides by it
\*   base = 0, n < 0: pow(0.0, n) raises
\*   base < 0: pow returns a real or a complex number, nothing raises
FlowRaises(base, t) ==
    IF base > 0 THEN FALSE
    ELSE IF base = 0 THEN (t[1] > 0 \/ t[1] = 0 \/ t[1] < 0)
    ELSE FALSE

\* The outcomes of "dirty_price != 0" after the loop.  The sum is not
\* evaluated: it is zero when every amount is zero, nonzero when the base is
\* positive and the amounts are non-negative and not all zero, or when a
\* single term is nonzero; otherwise the terms may cancel and both outcomes
\* are explored.
DirtyPrices(b, flows) ==
    LET nz == { i \in 1..Len(flows) : flows[i].amount # 0 }
    IN  IF nz = {} THEN {"zero"}
        ELSE IF Cardinality(nz) = 1 THEN {"nonzero"}
        ELSE IF DiscountBase(b) > 0
                /\ \A i \in 1..Len(flows) : flows[i].amount >= 0
             THEN {"nonzero"}
        ELSE {"zero", "nonzero"}

\* Discounting: the for loop over cash_flows
Discount ==
    /\ pc = "discount"
    /\ IF \E i \in 1..Len(cash_flows) :
            FlowRaises(DiscountBase(bond),
                       CalculateYearFraction(bond.convention,
                                             bond.settlement_date,
                                             cash_flows[i].date).val)
       THEN /\ result' = Raised("ZeroDivisionError")
            /\ pc' = "done"
            /\ UNCHANGED dirty_price
       ELSE /\ dirty_price' \in DirtyPrices(bond, cash_flows)
            /\ pc' = "derive"
            /\ UNCHANGED result
    /\ UNCHANGED <<bond, current_candidate, last_coupon, days_accrued,
                   accrued_interest, current_cf_date, cash_flows, yf, bs>>

\* clean price, durations, convexity and the returned dict.  A duration or
\* convexity is "0.0" (the guarded value, or 0.0 divided by the base) or
\* "computed" (a quotient of the sums).
Derive ==
    /\ pc = "derive"
    /\ LET macaulay == IF dirty_price # "zero" THEN "computed" ELSE "0.0"
           convexity == IF dirty_price # "zero" THEN "computed" ELSE "0.0"
       IN  IF DiscountBase(bond) = 0
           THEN result' = Raised("ZeroDivisionError")
           ELSE result' = [kind |-> "record",
                           dirty_price |-> dirty_price,
                           accrued_interest |-> accrued_interest,
                           days_accrued |-> days_accrued,
                           macaulay_duration |-> macaulay,
                           modified_duration |-> macaulay,
                           convexity |-> convexity]
    /\ pc' = "done"
    /\ UNCHANGED <<bond, current_candidate, last_coupon, days_accrued,
                   accrued_interest, current_cf_date, cash_flows, dirty_price,
                   yf, bs>>

CalcNext ==
    \/ EnterCalculate
    \/ GetLastCouponDateStep
    \/ GetLastCouponDateReturn
    \/ AccruedInterest
    \/ FirstCoupon
    \/ GenerateStep
    \/ GenerateExit
    \/ Discount
    \/ Derive

Init == CalcInit /\ yf = None /\ bs = None

Next == CalcNext

Spec == Init /\ [][Next]_vars

\* The coupon schedule (backward walk, forward generation) reads only the
\* dates and the frequency of the bond: one choice of the other fields.
ScheduleInit ==
    /\ Init
    /\ bond.face_value = 100 /\ bond.coupon_rate = 5 /\ bond.yield_rate = 6
    /\ bond.convention = "30/360"

\* calculate is one sequential call: a step that can be taken is taken
SpecSchedule == ScheduleInit /\ [][Next]_vars /\ WF_vars(Next)

\* calculate is not running
CalcIdle ==
    /\ bond = None
    /\ pc = "idle"
    /\ current_candidate = NoDate
    /\ last_coupon = NoDate
    /\ days_accrued = 0
    /\ accrued_interest = Unset
    /\ current_cf_date = NoDate
    /\ cash_flows = << >>
    /\ dirty_price = None
    /\ result = NoResult

-----------------------------------------------------------------------------
(* Bond._calculate_year_fraction, called on its own *)

AllMonths == 1 .. 12

AllDates ==
    { MkDate(y, m, d) : <<y, m, d>> \in
          { t \in Years \X AllMonths \X Days : ValidDate(t[1], t[2], t[3]) } }

YearFractionInit ==
    /\ CalcIdle
    /\ bs = None
    /\ yf \in [pc : {"call"}, d1 : AllDates, d2 : AllDates,
               convention : Conventions \cup {OtherConvention},
               result : {NoResult}]

YearFractionCall ==
    /\ yf.pc = "call"
    /\ yf' = [yf EXCEPT !.pc = "returned",
                        !.result = CalculateYearFraction(yf.convention,
                                                         yf.d1, yf.d2)]
    /\ UNCHANGED <<calcVars, bs>>

YearFractionNext == YearFractionCall

SpecYearFraction == YearFractionInit /\ [][YearFractionNext]_vars

-----------------------------------------------------------------------------
(* Exact rationals <<num, den>> with den > 0, in lowest terms *)

Abs(x) == IF x < 0 THEN -x ELSE x

RECURSIVE GCD(_, _)
GCD(a, b) == IF b = 0 THEN a ELSE GCD(b, a % b)

\* n / d for d # 0
Rat(n, d) ==
    LET g == GCD(Abs(n), Abs(d))
        sgn == IF d < 0 THEN -1 ELSE 1
    IN  <<sgn * (n \div g), sgn * (d \div g)>>

RAdd(a, b) == Rat(a[1] * b[2] + b[1] * a[2], a[2] * b[2])

RSub(a, b) == Rat(a[1] * b[2] - b[1] * a[2], a[2] * b[2])

RMul(a, b) == Rat(a[1] * b[1], a[2] * b[2])

\* a / b for b # 0
RDiv(a, b) == Rat(a[1] * b[2], a[2] * b[1])

RECURSIVE RPow(_, _)
RPow(a, k) == IF k = 0 THEN <<1, 1>> ELSE RMul(a, RPow(a, k - 1))

-----------------------------------------------------------------------------
(* bootstrap_spot_curve *)

\* the largest maturity year of the explored par-yield tables
MaxMaturity == 4

\* par yields, in percent; all above -100, so that the final payment
\* 100 + coupon is positive
ParYieldValues == {-50, 0, 25, 100, 300}

ParYieldTables ==
    UNION { [ks -> ParYieldValues] : ks \in (SUBSET (1..MaxMaturity)) \ {{}} }

\* A spot rate z (as a fraction, spot / 100) is kept by the root it was
\* computed as: 1 + z = radicand ^ (1 / root).  spot_curve[year] = 0.0 is
\* radicand 1, root 1.
SpotOfRoot(radicand, root) == [radicand |-> radicand, root |-> root]

ZeroSpot == SpotOfRoot(<<1, 1>>, 1)

\* pow(1 + z_t, t) for a stored spot rate: radicand ^ (t / root), a rational
\* when root divides t
PowOnePlus(spot, t) ==
    IF t % spot.root = 0
    THEN [kind |-> "value", val |-> RPow(spot.radicand, t \div spot.root)]
    ELSE [kind |-> "irrational"]

\* sorted(par_yields.keys()) in descending order
SortedYearsDescending(keys) ==
    CHOOSE sq \in [1..Cardinality(keys) -> keys] :
        \A i, j \in 1..Cardinality(keys) : i < j => sq[i] > sq[j]

\* sorted(par_yields.keys())
SortedYears(keys) ==
    CHOOSE sq \in [1..Cardinality(keys) -> keys] :
        \A i, j \in 1..Cardinality(keys) : i < j => sq[i] < sq[j]

\* the inner loop with range(2, year)
RECURSIVE PvPriorCouponsFromTwo(_, _, _)
PvPriorCouponsFromTwo(coupon, year, spot_curve) ==
    IF year <= 2 THEN <<0, 1>>
    ELSE LET t == year - 1
             rest == PvPriorCouponsFromTwo(coupon, t, spot_curve)
         IN  IF t \in DOMAIN spot_curve
             THEN RAdd(rest, RDiv(<<coupon, 1>>,
                                  PowOnePlus(spot_curve[t], t).val))
             ELSE rest

\* for t in range(1, year): if t in spot_curve:
\*     pv_prior_coupons += coupon / pow(1 + z_t, t)
RECURSIVE PvPriorCoupons(_, _, _)
PvPriorCoupons(coupon, year, spot_curve) ==
    IF year <= 1 THEN <<0, 1>>
    ELSE LET t == year - 1
             rest == PvPriorCoupons(coupon, t, spot_curve)
         IN  IF t \in DOMAIN spot_curve
             THEN RAdd(rest, RDiv(<<coupon, 1>>,
                                  PowOnePlus(spot_curve[t], t).val))
             ELSE rest

\* The body of the loop after pv_prior_coupons: the value stored in
\* spot_curve[year], or the error raised.  coupon = 100 * (p / 100) = p.
SolveYear(coupon, year, pv_prior_coupons) ==
    LET remaining_val == RSub(<<100, 1>>, pv_prior_coupons)
        final_payment == 100 + coupon
    IN  IF remaining_val[1] <= 0 THEN [kind |-> "value", spot |-> ZeroSpot]
        ELSE IF final_payment = 0 THEN Raised("ZeroDivisionError")
        ELSE [kind |-> "value",
              spot |-> SpotOfRoot(RDiv(<<final_payment, 1>>, remaining_val),
                                  year)]

BootstrapInit ==
    /\ CalcIdle
    /\ yf = None
    /\ bs \in [pc : {"call"}, par_yields : ParYieldTables,
               sorted_years : {<< >>}, idx : {0}, spot_curve : {<< >>},
               result : {NoResult}]

\* sorted_years = sorted(par_yields.keys()); spot_curve = {}
BootstrapEnter ==
    /\ bs.pc = "call"
    /\ bs' = [bs EXCEPT !.pc = "loop",
                        !.sorted_years = SortedYears(DOMAIN bs.par_yields),
                        !.idx = 1,
                        !.spot_curve = << >>]
    /\ UNCHANGED <<calcVars, yf>>

\* one iteration of "for year in sorted_years"
BootstrapYear ==
    /\ bs.pc = "loop"
    /\ bs.idx <= Len(bs.sorted_years)
    /\ LET year == bs.sorted_years[bs.idx]
           coupon == bs.par_yields[year]
           solved == SolveYear(coupon, year,
                               PvPriorCoupons(coupon, year, bs.spot_curve))
       IN  IF solved.kind = "value"
           THEN bs' = [bs EXCEPT !.idx = bs.idx + 1,
                                 !.spot_curve =
                                     [y \in (DOMAIN bs.spot_curve) \cup {year} |->
                                         IF y = year THEN solved.spot
                                         ELSE bs.spot_curve[y]]]
           ELSE bs' = [bs EXCEPT !.pc = "done", !.result = solved]
    /\ UNCHANGED <<calcVars, yf>>

\* return spot_curve
BootstrapReturn ==
    /\ bs.pc = "loop"
    /\ bs.idx > Len(bs.sorted_years)
    /\ bs' = [bs EXCEPT !.pc = "done",
                        !.result = [kind |-> "returned",
                                    spot_curve |-> bs.spot_curve]]
    /\ UNCHANGED <<calcVars, yf>>

BootstrapNext ==
    \/ BootstrapEnter
    \/ BootstrapYear
    \/ BootstrapReturn

SpecBootstrap == BootstrapInit /\ [][BootstrapNext]_vars

-----------------------------------------------------------------------------
(* Properties of Bond.calculate, checked under Spec *)

MaturityAfterSettlement == DateGT(bond.maturity_date, bond.settlement_date)

\* C1: for maturity_date > settlement_date the generated cash-flow sequence
\* is non-empty, its last entry is dated on maturity_date and pays
\* coupon_val + face_value, and every earlier entry pays exactly coupon_val.
C1_LastCashFlowAtMaturity ==
    (pc = "discount" /\ MaturityAfterSettlement) =>
        /\ Len(cash_flows) > 0
        /\ cash_flows[Len(cash_flows)].date = bond.maturity_date
        /\ cash_flows[Len(cash_flows)].amount = CouponVal(bond) + FaceVal(bond)
        /\ \A i \in 1..(Len(cash_flows) - 1) :
               cash_flows[i].amount = CouponVal(bond)

\* C2: for settlement_date >= maturity_date get_last_coupon_date does not
\* return a date: calculate fails with InvalidDateRange.
C2_InvalidDateRange ==
    (pc \notin {"new", "walk"} /\ ~ MaturityAfterSettlement) =>
        result = Raised("InvalidDateRange")

\* C4: whenever 1 + yield_rate / freq <= 0, calculate ends with an
\* InvalidYield error, whatever the cash-flow schedule.
C4_InvalidYield ==
    (pc = "done" /\ DiscountBase(bond) <= 0) =>
        result = Raised("InvalidYield")

\* C5: whenever the accumulated dirty_price is 0, calculate does not raise
\* and returns a record whose macaulay_duration, modified_duration and
\* convexity are 0.
C5_ZeroDirtyPriceNeverRaises ==
    (pc = "done" /\ dirty_price = "zero") =>
        /\ result.kind = "record"
        /\ result.macaulay_duration = "0.0"
        /\ result.modified_duration = "0.0"
        /\ result.convexity = "0.0"

\* C9: with coupon_rate = 0 the accrued-interest step never divides by zero
\* and the accrued interest is 0, in the local variable and in the returned
\* record, for every settlement date, frequency and convention.
C9_ZeroCouponAccruesNothing ==
    (bond.coupon_rate = 0 /\ pc \notin {"new", "walk", "accrue"}) =>
        /\ accrued_interest[2] # 0
        /\ accrued_interest[1] = 0
        /\ result.kind = "record" =>
               (result.accrued_interest[2] # 0 /\ result.accrued_interest[1] = 0)

\* a zero-coupon bond settled inside a coupon period under Actual/Actual,
\* for which calculate returned
C9_Witness ==
    /\ bond.coupon_rate = 0
    /\ bond.face_value > 0
    /\ bond.convention = "Actual/Actual"
    /\ bond.frequency = "quarterly"
    /\ pc = "done"
    /\ result.kind = "record"
    /\ days_accrued > 0

\* C10: for maturity_date > settlement_date every generated cash-flow date
\* is strictly after settlement_date.
C10_CashFlowsAfterSettlement ==
    MaturityAfterSettlement =>
        \A i \in 1..Len(cash_flows) :
            DateGT(cash_flows[i].date, bond.settlement_date)

-----------------------------------------------------------------------------
(* Properties of _calculate_year_fraction, checked under SpecYearFraction *)

\* C3: for a convention outside the four known ones the year fraction is
\* not a number: the call fails with InvalidConvention.
C3_InvalidConvention ==
    (yf.pc = "returned" /\ yf.convention \notin Conventions) =>
        yf.result = Raised("InvalidConvention")

\* C8: for each of the four conventions the year fraction from a date to
\* itself is exactly 0, also on the 31st of a month and on Feb 29.
C8_SameDateIsZero ==
    (yf.pc = "returned" /\ yf.convention \in Conventions /\ yf.d1 = yf.d2) =>
        /\ yf.result.kind = "value"
        /\ yf.result.val[1] = 0
        /\ yf.result.val[2] # 0

\* the 30/360 fraction of a 31st to itself has been computed
C8_Witness ==
    /\ yf.pc = "returned"
    /\ yf.convention = "30/360"
    /\ yf.d1 = yf.d2
    /\ yf.d1.day = 31
    /\ yf.result.kind = "value"

-----------------------------------------------------------------------------
(* Properties of bootstrap_spot_curve, checked under SpecBootstrap *)

\* The spot rate of input year y written without the loops: the prior
\* coupons are summed over the input years below y only, each discounted
\* with that year's own spot rate; no par yield of a year above y is read.
RECURSIVE RefSpot(_, _)
RECURSIVE RefPvPrior(_, _, _)
RefSpot(par, y) ==
    SolveYear(par[y], y,
              RefPvPrior(par, y, { t \in DOMAIN par : t < y })).spot

RefPvPrior(par, y, ks) ==
    IF ks = {} THEN <<0, 1>>
    ELSE LET t == CHOOSE k \in ks : TRUE
         IN  RAdd(RefPvPrior(par, y, ks \ {t}),
                  RDiv(<<par[y], 1>>, PowOnePlus(RefSpot(par, t), t).val))

\* C6: the input years are solved in ascending order; the spot rate of an
\* input year Y discounts the prior coupons over the input years below Y
\* only (a year of [1, Y-1] that is not an input year adds nothing), and does
\* not depend on the par yield of any year above Y.
C6_BootstrapAscendingKnownYearsOnly ==
    /\ \A y \in DOMAIN bs.spot_curve :
           /\ y \in DOMAIN bs.par_yields
           /\ \A k \in (DOMAIN bs.par_yields) \ (DOMAIN bs.spot_curve) : y < k
           /\ bs.spot_curve[y] = RefSpot(bs.par_yields, y)
    /\ bs.result.kind = "returned" =>
           DOMAIN bs.result.spot_curve = DOMAIN bs.par_yields

\* the table {1: p, 4: q} with nonzero coupons has been bootstrapped: the
\* years 2 and 3 are missing and year 4 is solved, not clamped
C6_Witness ==
    /\ bs.pc = "done"
    /\ bs.result.kind = "returned"
    /\ DOMAIN bs.par_yields = {1, 4}
    /\ bs.par_yields[1] # 0
    /\ bs.par_yields[4] # 0
    /\ bs.result.spot_curve[4] # ZeroSpot

\* every input year has the par yield p
Flat(par, p) == \A y \in DOMAIN par : par[y] = p

\* the stored spot rate is p percent: 1 + p / 100 = radicand ^ (1 / root)
SpotIs(spot, p) == spot.radicand = RPow(Rat(100 + p, 100), spot.root)

\* C7 as stated: for a flat par-yield table, whatever its years, the
\* bootstrapped spot rate of every input year is p.
C7_FlatCurveAnyYears ==
    \A p \in ParYieldValues :
        (bs.pc = "done" /\ Flat(bs.par_yields, p)) =>
            /\ bs.result.kind = "returned"
            /\ \A y \in DOMAIN bs.par_yields :
                   SpotIs(bs.result.spot_curve[y], p)

\* the input years are 1, 2, ..., N
Contiguous(par) == DOMAIN par = 1 .. Cardinality(DOMAIN par)

\* C7 amended: for a flat par-yield table with p > -100 whose years are
\* exactly 1..N, the bootstrapped spot rate of every input year is p.
C7_FlatContiguousCurve ==
    \A p \in ParYieldValues :
        (bs.pc = "done" /\ Flat(bs.par_yields, p) /\ Contiguous(bs.par_yields)
            /\ p > -100) =>
            /\ bs.result.kind = "returned"
            /\ \A y \in DOMAIN bs.par_yields :
                   SpotIs(bs.result.spot_curve[y], p)

\* a flat 25% table over the years 1, 2, 3 has been bootstrapped
C7_Witness ==
    /\ bs.pc = "done"
    /\ bs.result.kind = "returned"
    /\ DOMAIN bs.par_yields = 1 .. 3
    /\ Flat(bs.par_yields, 25)
    /\ SpotIs(bs.result.spot_curve[3], 25)

-----------------------------------------------------------------------------
(* Properties of the coupon schedule, checked under SpecSchedule *)

\* The date k months from d (k may be negative), keeping the day of month,
\* or day 28 when the target month has no such day
ShiftMonths(d, k) ==
    LET idx == 12 * d.year + (d.month - 1) + k
        y == idx \div 12
        m == (idx % 12) + 1
    IN  MkDate(y, m, IF d.day <= DaysInMonth(y, m) THEN d.day ELSE 28)

\* The k-th candidate of the backward sequence that starts at maturity_date
RECURSIVE Candidate(_, _)
Candidate(b, k) ==
    IF k = 0 THEN b.maturity_date
    ELSE ShiftMonths(Candidate(b, k - 1), -MonthsStep(b))

\* no walk over the explored dates is longer than this
WalkBound == 12 * MaxYears + 1

\* d is the k-th candidate and every candidate before it exceeds settlement
IsCandidate(b, d, k) ==
    /\ d = Candidate(b, k)
    /\ \A j \in 0..(k - 1) : DateGT(Candidate(b, j), b.settlement_date)

\* C11: for maturity_date > settlement_date get_last_coupon_date terminates;
\* the candidates it visits are maturity_date, then each the previous one
\* moved back 12 / freq months keeping the day (day 28 when the month has no
\* such day); it returns the first candidate <= settlement_date, and the
\* candidate visited just before the result is > settlement_date.
C11_LastCouponIsFirstCandidateAtOrBeforeSettlement ==
    /\ [](IF pc = "walk" /\ MaturityAfterSettlement
          THEN \E k \in 0..WalkBound : IsCandidate(bond, current_candidate, k)
          ELSE TRUE)
    /\ [](IF pc = "accrue" /\ MaturityAfterSettlement
          THEN \E k \in 1..WalkBound :
                   /\ IsCandidate(bond, last_coupon, k)
                   /\ DateLE(last_coupon, bond.settlement_date)
                   /\ DateGT(Candidate(bond, k - 1), bond.settlement_date)
          ELSE TRUE)
    /\ ((pc = "new" /\ MaturityAfterSettlement) ~> (pc = "accrue"))

\* a walk from a 31st that was clamped to day 28 and went on for at least
\* three candidates has returned
C11_Witness ==
    /\ pc = "accrue"
    /\ MaturityAfterSettlement
    /\ bond.maturity_date.day = 31
    /\ last_coupon.day = 28
    /\ last_coupon = Candidate(bond, 3)

\* C12: the forward loop of calculate terminates for every bond; the dates
\* of the cash flows it appends are strictly increasing, each is the previous
\* one moved forward 12 / freq months (day 28 when the month has no such
\* day), and none exceeds maturity_date.
C12_ForwardScheduleOrderedAndFinite ==
    /\ [](/\ \A i \in 1..Len(cash_flows) :
                 DateLE(cash_flows[i].date, bond.maturity_date)
          /\ \A i \in 1..(Len(cash_flows) - 1) :
                 /\ DateGT(cash_flows[i + 1].date, cash_flows[i].date)
                 /\ cash_flows[i + 1].date =
                        ShiftMonths(cash_flows[i].date, MonthsStep(bond)))
    /\ ((pc = "gen") ~> (pc = "discount"))

\* the loop has ended after appending at least three cash flows, one of them
\* over a year end
C12_Witness ==
    /\ pc = "discount"
    /\ Len(cash_flows) >= 3
    /\ cash_flows[1].date.year < cash_flows[Len(cash_flows)].date.year

-----------------------------------------------------------------------------
(* Properties of the accrued days, checked under Spec *)

\* the accrued-interest step has run for a bond with
\* maturity_date > settlement_date and one of the four conventions
Accrued ==
    /\ pc \notin {"new", "walk", "accrue"}
    /\ MaturityAfterSettlement
    /\ bond.convention \in Conventions

\* days_accrued <= period, for the divisor period = <<num, den>>
WithinPeriod(days, period) == days * period[2] <= period[1]

\* C13 as stated: for maturity_date > settlement_date and every convention,
\* 0 <= days_accrued <= the period length used as divisor.
C13_DaysAccruedWithinPeriod ==
    Accrued =>
        /\ days_accrued >= 0
        /\ WithinPeriod(days_accrued, PeriodLength(bond, last_coupon))

\* settlement_date is before the coupon date one period after last_coupon
SettlesBeforeNextCoupon ==
    DateGT(MoveForwardOnePeriod(last_coupon, MonthsStep(bond)),
           bond.settlement_date)

\* C13 amended: for maturity_date > settlement_date and every convention,
\* days_accrued >= 0 and days_accrued exceeds the divisor by at most 5 days;
\* under 30/360 and Actual/Actual it is within the divisor whenever
\* settlement_date is before the coupon date one period after last_coupon.
C13_DaysAccruedBounds ==
    Accrued =>
        /\ days_accrued >= 0
        /\ WithinPeriod(days_accrued - 5, PeriodLength(bond, last_coupon))
        /\ (bond.convention \in {"30/360", "Actual/Actual"}
              /\ SettlesBeforeNextCoupon) =>
               WithinPeriod(days_accrued, PeriodLength(bond, last_coupon))

\* an Actual/Actual bond settled on the last day of a coupon period
C13_Witness ==
    /\ Accrued
    /\ pc = "first"
    /\ bond.convention = "Actual/Actual"
    /\ SettlesBeforeNextCoupon
    /\ days_accrued + 1 = PeriodLength(bond, last_coupon)[1]

====
